---- MODULE Spec2Model ----
(***************************************************************************)
(* The request-handling pipeline of the web3-provider-proxy Cloudflare     *)
(* worker (src/unnamed/part_000): the router, the OPTIONS/GET/POST         *)
(* handlers, the cache-key derivation, the failover loop over the provider *)
(* pool, the edge-cache read-through/write-through and formatResponse.     *)
(*                                                                         *)
(* Each element of Events is one FetchEvent, from the listener's call to   *)
(* the settling of its handler and of its waitUntil promise.               *)
(* Every await of a handler is a step of its slot, so the handlers of      *)
(* different events interleave at their awaits, as in the single-threaded  *)
(* runtime. Texts that the code builds (the serialized params, the digest, *)
(* the cache key's path) are sequences of one-character strings.           *)
(***************************************************************************)
EXTENDS Integers, Sequences, FiniteSets, TLC

VARIABLES
  mode,      \* per provider: "up" answers 200 in time, "down" always fails
  cache,     \* caches.default: a function from key paths to stored entries
  req,       \* per event: event.request
  pc,        \* per event: where its handler is suspended
  key,       \* per event: the path of cacheKey (GET: the request's own path)
  provider,  \* per event: index in PROVIDERS of the provider being attempted
  resp,      \* per event: the handler's local variable response
  put,       \* per event: the cache.put handed to event.waitUntil
  out,       \* per event: what respondWith delivered to the client
  did,       \* per event: history of what the handler has done so far
  bodyUsed,  \* per event: event.request.bodyUsed
  sent,      \* per event: the Request given to fetch for the attempt under way
  late       \* per event: providers with a timed-out call that has not settled

vars ==
  <<mode, cache, req, pc, key, provider, resp, put, out, did, bodyUsed, sent,
    late>>

(* The number of FetchEvents the worker receives. *)
NumEvents == 2

Events == 1..NumEvents

(***************************************************************************)
(* Configuration (part_000 lines 17-20).                                   *)
(***************************************************************************)
EDGE_CACHE_TTL == 60

BROWSER_CACHE_TTL == 0

PROVIDER_TIMEOUT == 5000

(* JSON.parse(PROVIDERS): the hostnames of the pool. *)
PROVIDERS == <<"provider-a", "provider-b">>

ProviderIndex == 1..Len(PROVIDERS)

(***************************************************************************)
(* JavaScript values that get serialized.                                  *)
(***************************************************************************)
Undefined == [t |-> "undefined"]

JNull == [t |-> "null"]

JStr(chars) == [t |-> "string", v |-> chars]

JArr(elems) == [t |-> "array", v |-> elems]

RECURSIVE JoinWith(_, _)
(* Array.prototype.join on texts. *)
JoinWith(parts, sep) ==
  IF Len(parts) = 0 THEN <<>>
  ELSE IF Len(parts) = 1 THEN parts[1]
  ELSE parts[1] \o sep \o JoinWith(Tail(parts), sep)

RECURSIVE JSONtext(_)
(* The text JSON.stringify produces for a value that has one. *)
JSONtext(v) ==
  IF v.t = "string" THEN <<"\"">> \o v.v \o <<"\"">>
  ELSE IF v.t = "array"
    THEN <<"[">> \o JoinWith([i \in 1..Len(v.v) |-> JSONtext(v.v[i])], <<",">>)
           \o <<"]">>
  ELSE <<"n", "u", "l", "l">>

(* JSON.stringify(value): undefined for undefined, else a string. *)
JSONstringify(v) == IF v.t = "undefined" THEN Undefined ELSE JStr(JSONtext(v))

ShaK ==
  <<
    <<17034, 12184>>, <<28983, 17553>>, <<46528, 64463>>, <<59829, 56229>>,
    <<14678, 49755>>, <<23025, 4593>>, <<37439, 33444>>, <<43804, 24277>>,
    <<55303, 43672>>, <<4739, 23297>>, <<9265, 34238>>, <<21772, 32195>>,
    <<29374, 23924>>, <<32990, 45566>>, <<39900, 1703>>, <<49563, 61812>>,
    <<58523, 27073>>, <<61374, 18310>>, <<4033, 40390>>, <<9228, 41420>>,
    <<11753, 11375>>, <<19060, 33962>>, <<23728, 43484>>, <<30457, 35034>>,
    <<38974, 20818>>, <<43057, 50797>>, <<45059, 10184>>, <<48985, 32711>>,
    <<50912, 3059>>, <<54695, 37191>>, <<1738, 25425>>, <<5161, 10599>>,
    <<10167, 2693>>, <<11803, 8504>>, <<19756, 28156>>, <<21304, 3347>>,
    <<25866, 29524>>, <<30314, 2747>>, <<33218, 51502>>, <<37490, 11397>>,
    <<41663, 59553>>, <<43034, 26187>>, <<49739, 35696>>, <<51052, 20899>>,
    <<53650, 59417>>, <<54937, 1572>>, <<62478, 13701>>, <<4202, 41072>>,
    <<6564, 49430>>, <<7735, 27656>>, <<10056, 30540>>, <<13488, 48309>>,
    <<14620, 3251>>, <<20184, 43594>>, <<23452, 51791>>, <<26670, 28659>>,
    <<29839, 33518>>, <<30885, 25455>>, <<33992, 30740>>, <<36039, 520>>,
    <<37054, 65530>>, <<42064, 27883>>, <<48889, 41975>>, <<50801, 30962>>
  >>

ShaH0 ==
  <<
    <<27145, 58983>>, <<47975, 44677>>, <<15470, 62322>>, <<42319, 62778>>,
    <<20750, 21119>>, <<39685, 26764>>, <<8067, 55723>>, <<23520, 52505>>
  >>
(* Characters the modelled texts are made of, with their UTF-8 (ASCII) code. *)
AsciiCode ==
  [c \in {"[", "]", "\"", ",", "0", "1", "2", "x", "n", "u", "l"} |->
     CASE c = "[" -> 91 [] c = "]" -> 93 [] c = "\"" -> 34 [] c = "," -> 44
       [] c = "0" -> 48 [] c = "1" -> 49 [] c = "2" -> 50 [] c = "x" -> 120
       [] c = "n" -> 110 [] c = "u" -> 117 [] c = "l" -> 108]

(* new TextEncoder().encode(message): the UTF-8 bytes of the text; the
   argument defaults to the empty string when it is undefined. *)
TextEncode(message) ==
  IF message.t = "undefined" THEN <<>>
  ELSE [i \in 1..Len(message.v) |-> AsciiCode[message.v[i]]]

Pow2(n) == 2^n

RECURSIVE Xor16(_, _, _)
Xor16(a, b, n) ==
  IF n = 0 THEN 0
  ELSE (((a % 2) + (b % 2)) % 2) + 2 * Xor16(a \div 2, b \div 2, n - 1)

RECURSIVE And16(_, _, _)
And16(a, b, n) ==
  IF n = 0 THEN 0
  ELSE ((a % 2) * (b % 2)) + 2 * And16(a \div 2, b \div 2, n - 1)

(* 32-bit words are pairs <<high 16 bits, low 16 bits>>. *)
Xor32(a, b) == <<Xor16(a[1], b[1], 16), Xor16(a[2], b[2], 16)>>
And32(a, b) == <<And16(a[1], b[1], 16), And16(a[2], b[2], 16)>>
Not32(a) == <<65535 - a[1], 65535 - a[2]>>
Add32(a, b) ==
  LET lo == a[2] + b[2]
      hi == a[1] + b[1] + (lo \div 65536)
  IN  <<hi % 65536, lo % 65536>>

RECURSIVE RotR(_, _)
RotR(a, n) ==
  IF n >= 16 THEN RotR(<<a[2], a[1]>>, n - 16)
  ELSE <<(a[1] \div Pow2(n)) + (a[2] % Pow2(n)) * Pow2(16 - n),
         (a[2] \div Pow2(n)) + (a[1] % Pow2(n)) * Pow2(16 - n)>>

ShR(a, n) ==
  IF n >= 16 THEN <<0, a[1] \div Pow2(n - 16)>>
  ELSE <<a[1] \div Pow2(n),
         (a[2] \div Pow2(n)) + (a[1] % Pow2(n)) * Pow2(16 - n)>>

SmallSigma0(x) == Xor32(Xor32(RotR(x, 7), RotR(x, 18)), ShR(x, 3))
SmallSigma1(x) == Xor32(Xor32(RotR(x, 17), RotR(x, 19)), ShR(x, 10))
BigSigma0(x) == Xor32(Xor32(RotR(x, 2), RotR(x, 13)), RotR(x, 22))
BigSigma1(x) == Xor32(Xor32(RotR(x, 6), RotR(x, 11)), RotR(x, 25))
Ch(x, y, z) == Xor32(And32(x, y), And32(Not32(x), z))
Maj(x, y, z) == Xor32(Xor32(And32(x, y), And32(x, z)), And32(y, z))

RECURSIVE Zeros(_)
Zeros(n) == IF n = 0 THEN <<>> ELSE <<0>> \o Zeros(n - 1)

(* SHA-256 padding: 0x80, zeros up to 56 mod 64, the bit length on 8 bytes. *)
ShaPad(bytes) ==
  LET n == Len(bytes)
      z == (119 - (n % 64)) % 64
      bits == 8 * n
  IN  bytes \o <<128>> \o Zeros(z) \o <<0, 0, 0, 0>>
        \o <<(bits \div 16777216) % 256, (bits \div 65536) % 256,
             (bits \div 256) % 256, bits % 256>>

RECURSIVE ShaSchedule(_)
ShaSchedule(w) ==
  IF Len(w) = 64 THEN w
  ELSE LET t == Len(w) + 1
           x == Add32(Add32(SmallSigma1(w[t - 2]), w[t - 7]),
                      Add32(SmallSigma0(w[t - 15]), w[t - 16]))
       IN  ShaSchedule(Append(w, x))

RECURSIVE ShaRounds(_, _, _)
ShaRounds(s, w, t) ==
  IF t > 64 \/ Len(s) # 8 THEN s
  ELSE LET t1 == Add32(Add32(Add32(s[8], BigSigma1(s[5])),
                             Add32(Ch(s[5], s[6], s[7]), ShaK[t])), w[t])
           t2 == Add32(BigSigma0(s[1]), Maj(s[1], s[2], s[3]))
       IN  ShaRounds(<<Add32(t1, t2), s[1], s[2], s[3],
                       Add32(s[4], t1), s[5], s[6], s[7]>>, w, t + 1)

ShaBlock(h, block) ==
  LET w0 == [i \in 1..16 |-> <<block[4 * i - 3] * 256 + block[4 * i - 2],
                               block[4 * i - 1] * 256 + block[4 * i]>>]
      w == ShaSchedule(w0)
      s == ShaRounds(h, w, 1)
  IN  [i \in 1..8 |-> Add32(h[i], s[i])]

RECURSIVE ShaBlocks(_, _)
ShaBlocks(h, padded) ==
  IF Len(padded) = 0 THEN h
  ELSE ShaBlocks(ShaBlock(h, SubSeq(padded, 1, 64)),
                 SubSeq(padded, 65, Len(padded)))

(* crypto.subtle.digest("SHA-256", msgBuffer) as an array of 32 bytes. *)
Digest(bytes) ==
  LET h == ShaBlocks(ShaH0, ShaPad(bytes))
  IN  [i \in 1..32 |->
         LET word == h[((i - 1) \div 4) + 1]
             k == (i - 1) % 4
         IN  IF k = 0 THEN word[1] \div 256
             ELSE IF k = 1 THEN word[1] % 256
             ELSE IF k = 2 THEN word[2] \div 256
             ELSE word[2] % 256]

HexDigit ==
  <<"0", "1", "2", "3", "4", "5", "6", "7", "8", "9", "a", "b", "c", "d", "e", "f">>

(* b.toString(16): the hexadecimal digits of a byte, without leading zero. *)
ToString16(b) ==
  IF b < 16 THEN <<HexDigit[b + 1]>>
  ELSE <<HexDigit[(b \div 16) + 1], HexDigit[(b % 16) + 1]>>

(* ("00" + b.toString(16)).slice(-2) *)
HexByte(b) ==
  LET s == <<"0", "0">> \o ToString16(b)
  IN  SubSeq(s, Len(s) - 1, Len(s))

RECURSIVE Join(_)
Join(parts) ==
  IF Len(parts) = 0 THEN <<>> ELSE Head(parts) \o Join(Tail(parts))

(* sha256(message): the lowercase hexadecimal SHA-256 digest of the text. *)
sha256(message) ==
  LET msgBuffer == TextEncode(message)
      hashArray == Digest(msgBuffer)
  IN  Join([i \in 1..32 |-> HexByte(hashArray[i])])
(***************************************************************************)
(* Inbound requests.                                                       *)
(***************************************************************************)
NoBody == [t |-> "none"]

(* A body that request.json() cannot parse. *)
InvalidJSON == [t |-> "invalid"]

RpcMethods == {"eth_call", "eth_getBalance", "eth_blockNumber", "eth_estimateGas"}

Ids == {1, 2}

ParamValues ==
  {JArr(<<>>), JArr(<<JStr(<<"0", "x", "1">>)>>)}

RpcBodies ==
  {[t |-> "object", id |-> i, method |-> m, jsonrpc |-> "2.0", params |-> p] :
     i \in Ids, m \in RpcMethods, p \in ParamValues}

(* What destructuring reads of a field that the body lacks (undefined); it
   is kept a string here so that === against a method name is false. *)
MissingField == "(undefined)"

(* A body that is a JSON object without method, jsonrpc and params. *)
BareBody ==
  [t |-> "object", id |-> 1, method |-> MissingField,
   jsonrpc |-> MissingField, params |-> Undefined]

(* The body that is the JSON text null: json() resolves, destructuring
   throws. *)
NullBody == [t |-> "null"]

NoHeaders == [h \in {} |-> <<>>]

PreflightHeaders ==
  [h \in {"Origin", "Access-Control-Request-Method",
          "Access-Control-Request-Headers"} |->
     IF h = "Origin" THEN <<"https://app.example">>
     ELSE IF h = "Access-Control-Request-Method" THEN <<"POST">>
     ELSE <<"content-type">>]

ProbeHeaders == [h \in {"Origin"} |-> <<"https://app.example">>]

(* The preflight headers with one of the three left out. *)
NoRequestHeadersHeaders ==
  [h \in {"Origin", "Access-Control-Request-Method"} |-> PreflightHeaders[h]]

NoOriginHeaders ==
  [h \in {"Access-Control-Request-Method", "Access-Control-Request-Headers"}
     |-> PreflightHeaders[h]]

RpcPath == <<"/">>

(* The texts the modelled POST bodies serialize their params to. *)
SerializedParams ==
  {JSONstringify(p) : p \in ParamValues \cup {BareBody.params}}

(* sha256 over the texts above, computed once per text. *)
sha256Memo == [m \in SerializedParams |-> sha256(m)]

(* A GET URL that is no cache key of a POST, and one that is. *)
GetPaths ==
  {<<"/", "v", "1">>,
   <<"/", "p", "o", "s", "t", "s">> \o RpcPath
     \o sha256Memo[JSONstringify(JArr(<<>>))]}

(* Requests whose method is spelled in lower case, and one with a method
   that is none of GET, POST, OPTIONS. *)
OtherCaseRequests ==
  {[method |-> "post", path |-> RpcPath, headers |-> NoHeaders,
    body |-> [t |-> "object", id |-> 1, method |-> "eth_call",
              jsonrpc |-> "2.0", params |-> JArr(<<>>)]],
   [method |-> "options", path |-> RpcPath, headers |-> PreflightHeaders,
    body |-> NoBody],
   [method |-> "HEAD", path |-> <<"/", "v", "1">>, headers |-> NoHeaders,
    body |-> NoBody]}

Requests ==
  {[method |-> "GET", path |-> p, headers |-> NoHeaders, body |-> NoBody] :
     p \in GetPaths}
  \cup
  {[method |-> "POST", path |-> RpcPath, headers |-> NoHeaders, body |-> b] :
     b \in RpcBodies \cup {InvalidJSON, NullBody, BareBody}}
  \cup
  {[method |-> "OPTIONS", path |-> RpcPath, headers |-> h, body |-> NoBody] :
     h \in {PreflightHeaders, ProbeHeaders, NoRequestHeadersHeaders,
             NoOriginHeaders}}
  \cup
  OtherCaseRequests

NoRequest == [method |-> "", path |-> <<>>, headers |-> NoHeaders, body |-> NoBody]

(* The method is compared as it was sent. *)
toUpperCase_AsSent(m) == m

(* String.prototype.toUpperCase on the HTTP methods that occur. *)
toUpperCase(m) ==
  CASE m = "options" -> "OPTIONS"
    [] m = "post" -> "POST"
    [] m = "get" -> "GET"
    [] OTHER -> m

(***************************************************************************)
(* Responses. A header value is a sequence of tokens.                      *)
(***************************************************************************)
NoResponse == [t |-> "none"]

NoKey == <<>>

SetHeader(headers, name, value) ==
  [h \in DOMAIN headers \cup {name} |-> IF h = name THEN value ELSE headers[h]]

(* response.ok *)
Ok(response) == response.status >= 200 /\ response.status <= 299

(* What a provider answers to the request: the answer names the query. *)
Answer(q) ==
  IF q.body.t = "object"
    THEN [method |-> q.body.method, params |-> q.body.params]
    ELSE [method |-> q.method, params |-> Undefined]

(* The body a provider sends: a JSON-RPC envelope that echoes the id. *)
OriginBody(q, status) ==
  [jsonrpc |-> "2.0",
   id |-> IF q.body.t = "object" THEN q.body.id ELSE 0,
   result |-> IF status = 200 THEN Answer(q) ELSE [error |-> status]]

(* What the network call of one attempt can do, by the provider's mode:
   fail at the network level, or answer with a status after a latency (ms). *)
Outcomes(m) ==
  IF m = "up" THEN {[kind |-> "response", status |-> 200, latency |-> 100]}
  ELSE {[kind |-> "error", status |-> 0, latency |-> 100],
        [kind |-> "response", status |-> 500, latency |-> 100],
        [kind |-> "response", status |-> 200, latency |-> 9000]}

(* The Response of a network call; attempt and by record where it came from
   (the attempt's outcome, and the request that asked). *)
OriginResponse(q, o) ==
  [t |-> "response",
   status |-> o.status,
   headers |-> [h \in {"Content-Type", "Cache-Control"} |->
                  IF h = "Content-Type" THEN <<"application/json">>
                  ELSE <<"no-store">>],
   body |-> OriginBody(q, o.status),
   attempt |-> o,
   by |-> [method |-> q.method,
           rpc |-> IF q.body.t = "object" THEN q.body.method ELSE ""]]

(***************************************************************************)
(* The pure parts of the handlers.                                         *)
(***************************************************************************)

(* The timer of fetchWithTimeout never fires: a slow answer is let through. *)
fetchWithTimeout_NoTimer(q, o, timeout) ==
  IF o.kind = "error" THEN [settled |-> "rejected", value |-> NoResponse]
  ELSE [settled |-> "fulfilled", value |-> OriginResponse(q, o)]

(* fetchWithTimeout: Promise.race of the network call and the timer. *)
fetchWithTimeout(q, o, timeout) ==
  IF o.kind = "error" THEN [settled |-> "rejected", value |-> NoResponse]
  ELSE IF o.latency < timeout
    THEN [settled |-> "fulfilled", value |-> OriginResponse(q, o)]
    ELSE [settled |-> "rejected", value |-> NoResponse]

(* The network call of the attempt is still running when the race is over:
   the timer won and nothing cancels the fetch. *)
abandoned(o, timeout) == o.kind # "error" /\ ~(o.latency < timeout)

(* The body of a Request that has been read. *)
DrainedBody == [t |-> "used"]

(* The original request is handed on in the place of a clone: reading the
   clone reads the original. *)
clone_Original(request, used) ==
  [request |-> IF used THEN [request EXCEPT !.body = DrainedBody] ELSE request,
   bodyUsed |-> TRUE]

(* request.clone(): a Request with the method, headers and body of the
   original, whose own body stays unread (bodyUsed as it was). clone() of a
   request whose body was read throws: there is no request to send. *)
clone(request, used) ==
  [request |-> IF used THEN NoRequest ELSE request,
   bodyUsed |-> used]

(* The attempt's try block without the response.ok test. *)
attemptSucceeds_NoOkTest(result) == result.settled = "fulfilled"

(* tryProvider's try block completes: the race fulfilled and response.ok. *)
attemptSucceeds(result) ==
  /\ result.settled = "fulfilled"
  /\ Ok(result.value)

(* Only one of the two bypass methods is tested. *)
bypassCache_OnlyBlockNumber(method) == method = "eth_blockNumber"

(* handlePost: const bypassCache = ... *)
bypassCache(method) ==
  \/ method = "eth_blockNumber"
  \/ method = "eth_estimateGas"

(* The key ignores the params: the digest of a fixed text. *)
cacheKeyPath_FixedHash(request) ==
  <<"/", "p", "o", "s", "t", "s">> \o request.path \o sha256Memo[Undefined]

(* handlePost: the pathname of cacheKey. The code builds
   cacheable = {method, jsonrpc, ...params} and does not use it. *)
cacheKeyPath(request) ==
  LET cacheableBody == JSONstringify(request.body.params)
      hash == sha256Memo[cacheableBody]
  IN  <<"/", "p", "o", "s", "t", "s">> \o request.path \o hash

(* getOriginResponse: new Response(response.body, { ...response, headers }).
   The spread of a Response has no own properties, so only the body is kept:
   the status is the default 200 and the headers are the one given. *)
edgeResponse(response) ==
  [response EXCEPT
     !.status = 200,
     !.headers = [h \in {"Cache-Control"} |->
                    <<"public, max-age=", EDGE_CACHE_TTL>>]]

NoExtra == [t |-> "none"]

(* { ...originalBody, ...body } *)
Spread(originalBody, body) ==
  [f \in DOMAIN originalBody \cup DOMAIN body |->
     IF f \in DOMAIN body THEN body[f] ELSE originalBody[f]]

(* The CORS headers are set but Cache-Control is left as it came. *)
formatHeaders_KeepCacheControl(headers) ==
  SetHeader(SetHeader(SetHeader(headers,
      "Access-Control-Allow-Method", <<"*">>),
      "Access-Control-Allow-Origin", <<"*">>),
      "Access-Control-Allow-Headers", <<"*">>)

(* formatResponse: the four formattedResponse.headers.set calls. *)
formatHeaders(headers) ==
  SetHeader(SetHeader(SetHeader(SetHeader(headers,
      "Cache-Control", <<"max-age=", BROWSER_CACHE_TTL>>),
      "Access-Control-Allow-Method", <<"*">>),
      "Access-Control-Allow-Origin", <<"*">>),
      "Access-Control-Allow-Headers", <<"*">>)

(* The fields of the cached body win over the extra fields. *)
formatBody_OriginalWins(response, body) ==
  IF body # NoExtra THEN Spread(body, response.body) ELSE response.body

(* formatResponse: the body of formattedResponse. *)
formatBody(response, body) ==
  IF body # NoExtra THEN Spread(response.body, body) ELSE response.body

(* new Response(body, response): the headers of the init; a body that is a
   string (fullBody) brings Content-Type text/plain when the init has none,
   a body that is a stream (response.body) brings nothing. *)
initHeaders(response, body) ==
  IF body # NoExtra /\ "Content-Type" \notin DOMAIN response.headers
    THEN SetHeader(response.headers, "Content-Type",
                   <<"text/plain;charset=UTF-8">>)
    ELSE response.headers

formatResponse(response, body) ==
  [response EXCEPT
     !.body = formatBody(response, body),
     !.headers = formatHeaders(initHeaders(response, body))]

(* Only Access-Control-Request-Headers is looked for. *)
handleOptions_RequestHeadersOnly(request) ==
  LET headers == request.headers
  IN  IF "Access-Control-Request-Headers" \in DOMAIN headers
        THEN [t |-> "response", status |-> 200, body |-> NoBody,
              headers |->
                [h \in {"Access-Control-Allow-Origin",
                        "Access-Control-Allow-Methods",
                        "Access-Control-Max-Age",
                        "Access-Control-Allow-Headers"} |->
                   IF h = "Access-Control-Allow-Origin" THEN <<"*">>
                   ELSE IF h = "Access-Control-Allow-Methods"
                     THEN <<"GET,HEAD,POST,OPTIONS">>
                   ELSE IF h = "Access-Control-Max-Age" THEN <<"86400">>
                   ELSE headers["Access-Control-Request-Headers"]]]
        ELSE [t |-> "response", status |-> 200, body |-> NoBody,
              headers |-> [h \in {"Allow"} |-> <<"GET, HEAD, POST, OPTIONS">>]]

(* handleOptions *)
handleOptions(request) ==
  LET headers == request.headers
  IN  IF /\ "Origin" \in DOMAIN headers
         /\ "Access-Control-Request-Method" \in DOMAIN headers
         /\ "Access-Control-Request-Headers" \in DOMAIN headers
        THEN [t |-> "response", status |-> 200, body |-> NoBody,
              headers |->
                [h \in {"Access-Control-Allow-Origin",
                        "Access-Control-Allow-Methods",
                        "Access-Control-Max-Age",
                        "Access-Control-Allow-Headers"} |->
                   IF h = "Access-Control-Allow-Origin" THEN <<"*">>
                   ELSE IF h = "Access-Control-Allow-Methods"
                     THEN <<"GET,HEAD,POST,OPTIONS">>
                   ELSE IF h = "Access-Control-Max-Age" THEN <<"86400">>
                   ELSE headers["Access-Control-Request-Headers"]]]
        ELSE [t |-> "response", status |-> 200, body |-> NoBody,
              headers |-> [h \in {"Allow"} |-> <<"GET, HEAD, POST, OPTIONS">>]]

(* The handler the listener hands the event to. *)
Handler(request) ==
  IF toUpperCase(request.method) = "OPTIONS" THEN "handleOptions"
  ELSE IF toUpperCase(request.method) = "POST" THEN "handlePost"
  ELSE "handleGet"

(* event.request as getOriginResponse reads it. handlePost passes the event;
   handleGet passes the Request in the place of the event, and a Request has
   no property request. *)
eventRequest(request) ==
  IF Handler(request) = "handleGet" THEN Undefined ELSE request

(* The extra fields the handler gives formatResponse. *)
extraBody(request) ==
  IF Handler(request) = "handlePost" THEN [id |-> request.body.id] ELSE NoExtra

(***************************************************************************)
(* The state machine.                                                      *)
(***************************************************************************)
NoPut == [state |-> "none"]

Init ==
  /\ mode \in [ProviderIndex -> {"up", "down"}]
  /\ cache = [k \in {} |-> NoResponse]
  /\ req = [r \in Events |-> NoRequest]
  /\ pc = [r \in Events |-> "idle"]
  /\ key = [r \in Events |-> NoKey]
  /\ provider = [r \in Events |-> 0]
  /\ resp = [r \in Events |-> NoResponse]
  /\ put = [r \in Events |-> NoPut]
  /\ out = [r \in Events |-> NoResponse]
  /\ did = [r \in Events |-> {}]
  /\ bodyUsed = [r \in Events |-> FALSE]
  /\ sent = [r \in Events |-> NoRequest]
  /\ late = [r \in Events |-> {}]

(* The listener gets an OPTIONS request: handleOptions has no await, the
   response is delivered in the same turn. *)
ReceiveOptions(r, q) ==
  /\ pc[r] = "idle"
  /\ Handler(q) = "handleOptions"
  /\ req' = [req EXCEPT ![r] = q]
  /\ out' = [out EXCEPT ![r] = handleOptions(q)]
  /\ pc' = [pc EXCEPT ![r] = "done"]
  /\ UNCHANGED <<mode, cache, key, provider, resp, put, did, bodyUsed, sent,
                 late>>

(* The listener gets a POST: handlePost runs up to await request.clone().json(). *)
ReceivePost(r, q) ==
  /\ pc[r] = "idle"
  /\ Handler(q) = "handlePost"
  /\ req' = [req EXCEPT ![r] = q]
  /\ pc' = [pc EXCEPT ![r] = "parse"]
  /\ bodyUsed' = [bodyUsed EXCEPT ![r] = clone(q, bodyUsed[r]).bodyUsed]
  /\ UNCHANGED <<mode, cache, key, provider, resp, put, out, did, sent, late>>

(* The listener gets any other request: handleGet runs up to
   await cache.match(request). *)
ReceiveGet(r, q) ==
  /\ pc[r] = "idle"
  /\ Handler(q) = "handleGet"
  /\ req' = [req EXCEPT ![r] = q]
  /\ key' = [key EXCEPT ![r] = q.path]
  /\ pc' = [pc EXCEPT ![r] = "lookup"]
  /\ did' = [did EXCEPT ![r] = {"lookup"}]
  /\ UNCHANGED <<mode, cache, provider, resp, put, out, bodyUsed, sent, late>>

(* The handler goes on to the cache lookup with the body it could not read. *)
PostBodyInvalid_Lookup(r) ==
  /\ pc[r] = "parse"
  /\ req[r].body.t # "object"
  /\ key' = [key EXCEPT ![r] =
               <<"/", "p", "o", "s", "t", "s">> \o req[r].path
                 \o sha256Memo[Undefined]]
  /\ pc' = [pc EXCEPT ![r] = "lookup"]
  /\ did' = [did EXCEPT ![r] = @ \cup {"lookup"}]
  /\ UNCHANGED <<mode, cache, req, provider, resp, put, out, bodyUsed, sent,
                 late>>

(* handlePost: request.clone().json() rejects, or the destructuring of a
   null body throws: the handler fails. *)
PostBodyInvalid(r) ==
  /\ pc[r] = "parse"
  /\ req[r].body.t # "object"
  /\ pc' = [pc EXCEPT ![r] = "failed"]
  /\ UNCHANGED <<mode, cache, req, key, provider, resp, put, out, did,
                 bodyUsed, sent, late>>

(* handlePost, bypass: getOriginResponse(url, event) without cacheKey calls
   tryProvider, which picks a provider and starts the first attempt. *)
PostBypass(r, p) ==
  /\ pc[r] = "parse"
  /\ req[r].body.t = "object"
  /\ bypassCache(req[r].body.method)
  /\ provider' = [provider EXCEPT ![r] = p]
  /\ sent' = [sent EXCEPT ![r] = clone(req[r], bodyUsed[r]).request]
  /\ bodyUsed' = [bodyUsed EXCEPT ![r] = clone(req[r], bodyUsed[r]).bodyUsed]
  /\ pc' = [pc EXCEPT ![r] = "fetch"]
  /\ did' = [did EXCEPT ![r] = @ \cup {"tryProvider", "attempt"}]
  /\ UNCHANGED <<mode, cache, req, key, resp, put, out, late>>

(* handlePost, cacheable: the body is parsed, the params are serialized and
   the handler runs up to await sha256(cacheableBody). *)
PostHash(r) ==
  /\ pc[r] = "parse"
  /\ req[r].body.t = "object"
  /\ ~bypassCache(req[r].body.method)
  /\ pc' = [pc EXCEPT ![r] = "hash"]
  /\ UNCHANGED <<mode, cache, req, key, provider, resp, put, out, did,
                 bodyUsed, sent, late>>

(* The cacheable POST goes to the origin before it asks the cache. *)
PostLookup_FetchFirst(r) ==
  /\ pc[r] = "hash"
  /\ key' = [key EXCEPT ![r] = cacheKeyPath(req[r])]
  /\ \E p \in ProviderIndex : provider' = [provider EXCEPT ![r] = p]
  /\ sent' = [sent EXCEPT ![r] = clone(req[r], bodyUsed[r]).request]
  /\ bodyUsed' = [bodyUsed EXCEPT ![r] = clone(req[r], bodyUsed[r]).bodyUsed]
  /\ pc' = [pc EXCEPT ![r] = "fetch"]
  /\ did' = [did EXCEPT ![r] = @ \cup {"tryProvider", "attempt"}]
  /\ UNCHANGED <<mode, cache, req, resp, put, out, late>>

(* handlePost, cacheable: the digest settles, the key is built and the
   handler runs up to await cache.match(cacheKey). *)
PostLookup(r) ==
  /\ pc[r] = "hash"
  /\ key' = [key EXCEPT ![r] = cacheKeyPath(req[r])]
  /\ pc' = [pc EXCEPT ![r] = "lookup"]
  /\ did' = [did EXCEPT ![r] = @ \cup {"lookup"}]
  /\ UNCHANGED <<mode, cache, req, provider, resp, put, out, bodyUsed, sent,
                 late>>

(* cache.match finds an entry: the handler goes on to formatResponse. *)
CacheHit(r) ==
  /\ pc[r] = "lookup"
  /\ key[r] \in DOMAIN cache
  /\ resp' = [resp EXCEPT ![r] = cache[key[r]]]
  /\ pc' = [pc EXCEPT ![r] = "format"]
  /\ did' = [did EXCEPT ![r] = @ \cup {"hit"}]
  /\ UNCHANGED <<mode, cache, req, key, provider, put, out, bodyUsed, sent,
                 late>>

(* cache.match finds nothing and event.request is a Request:
   getOriginResponse calls tryProvider, which starts the first attempt. *)
CacheMiss(r, p) ==
  /\ pc[r] = "lookup"
  /\ key[r] \notin DOMAIN cache
  /\ eventRequest(req[r]) # Undefined
  /\ provider' = [provider EXCEPT ![r] = p]
  /\ sent' = [sent EXCEPT ![r] = clone(req[r], bodyUsed[r]).request]
  /\ bodyUsed' = [bodyUsed EXCEPT ![r] = clone(req[r], bodyUsed[r]).bodyUsed]
  /\ pc' = [pc EXCEPT ![r] = "fetch"]
  /\ did' = [did EXCEPT ![r] = @ \cup {"miss", "tryProvider", "attempt"}]
  /\ UNCHANGED <<mode, cache, req, key, resp, put, out, late>>

(* cache.match finds nothing and event.request is undefined: in tryProvider
   request.clone() throws inside the try before any fetch, the catch calls
   tryProvider again in the same turn, and the recursion ends in a stack
   overflow that rejects every pending tryProvider and the handler. *)
CacheMissNoRequest(r) ==
  /\ pc[r] = "lookup"
  /\ key[r] \notin DOMAIN cache
  /\ eventRequest(req[r]) = Undefined
  /\ pc' = [pc EXCEPT ![r] = "failed"]
  /\ did' = [did EXCEPT ![r] = @ \cup {"miss", "tryProvider"}]
  /\ UNCHANGED <<mode, cache, req, key, provider, resp, put, out, bodyUsed,
                 sent, late>>

(* An attempt settles and tryProvider returns its response to
   getOriginResponse: without cacheKey the response is returned as it is,
   else it is restamped and cache.put is handed to event.waitUntil. *)
AttemptSucceeded(r, o) ==
  /\ pc[r] = "fetch"
  /\ o \in Outcomes(mode[provider[r]])
  /\ LET result == fetchWithTimeout(sent[r], o, PROVIDER_TIMEOUT)
     IN  /\ attemptSucceeds(result)
         /\ IF key[r] = NoKey
              THEN /\ resp' = [resp EXCEPT ![r] = result.value]
                   /\ UNCHANGED <<put, did>>
              ELSE /\ resp' = [resp EXCEPT ![r] = edgeResponse(result.value)]
                   /\ put' = [put EXCEPT ![r] =
                                [state |-> "pending", key |-> key[r],
                                 response |-> edgeResponse(result.value)]]
                   /\ did' = [did EXCEPT ![r] = @ \cup {"store"}]
  /\ pc' = [pc EXCEPT ![r] = "format"]
  /\ UNCHANGED <<mode, cache, req, key, provider, out, bodyUsed, sent, late>>

(* An attempt times out, fails in the network or is not ok: the catch calls
   tryProvider again, which picks a provider and starts a new attempt with
   a clone of the request. The network call of an attempt that timed out is
   left in flight. *)
AttemptFailed(r, o, p) ==
  /\ pc[r] = "fetch"
  /\ o \in Outcomes(mode[provider[r]])
  /\ ~attemptSucceeds(fetchWithTimeout(sent[r], o, PROVIDER_TIMEOUT))
  /\ late' = [late EXCEPT ![r] =
                IF abandoned(o, PROVIDER_TIMEOUT) THEN @ \cup {provider[r]}
                ELSE @]
  /\ provider' = [provider EXCEPT ![r] = p]
  /\ sent' = [sent EXCEPT ![r] = clone(req[r], bodyUsed[r]).request]
  /\ bodyUsed' = [bodyUsed EXCEPT ![r] = clone(req[r], bodyUsed[r]).bodyUsed]
  /\ did' = [did EXCEPT ![r] = @ \cup {"retry"}]
  /\ UNCHANGED <<mode, cache, req, pc, key, resp, put, out>>

(* The late answer of a call that had timed out is taken as the response. *)
LateSettle_Used(r, p) ==
  /\ p \in late[r]
  /\ late' = [late EXCEPT ![r] = @ \ {p}]
  /\ IF pc[r] = "fetch"
       THEN /\ resp' = [resp EXCEPT ![r] =
                         OriginResponse(req[r],
                           CHOOSE o \in Outcomes("down") :
                             abandoned(o, PROVIDER_TIMEOUT))]
            /\ pc' = [pc EXCEPT ![r] = "format"]
       ELSE UNCHANGED <<resp, pc>>
  /\ UNCHANGED <<mode, cache, req, key, provider, put, out, did, bodyUsed,
                 sent>>

(* The network call of an attempt that had timed out settles: Promise.race
   has settled before, nothing is waiting for the result. *)
LateSettle(r, p) ==
  /\ p \in late[r]
  /\ late' = [late EXCEPT ![r] = @ \ {p}]
  /\ UNCHANGED <<mode, cache, req, pc, key, provider, resp, put, out, did,
                 bodyUsed, sent>>

(* The handler awaits the cache write before it returns the response. *)
Respond_AfterStore(r) ==
  /\ pc[r] = "format"
  /\ put[r].state # "pending"
  /\ out' = [out EXCEPT ![r] = formatResponse(resp[r], extraBody(req[r]))]
  /\ pc' = [pc EXCEPT ![r] = "done"]
  /\ UNCHANGED <<mode, cache, req, key, provider, resp, put, did, bodyUsed,
                 sent, late>>

(* The response waits until no other event is inside the failover loop. *)
Respond_Locked(r) ==
  /\ pc[r] = "format"
  /\ \A x \in Events \ {r} : pc[x] # "fetch"
  /\ out' = [out EXCEPT ![r] = formatResponse(resp[r], extraBody(req[r]))]
  /\ pc' = [pc EXCEPT ![r] = "done"]
  /\ UNCHANGED <<mode, cache, req, key, provider, resp, put, did, bodyUsed,
                 sent, late>>

(* formatResponse and respondWith: the client gets the response. *)
Respond(r) ==
  /\ pc[r] = "format"
  /\ out' = [out EXCEPT ![r] = formatResponse(resp[r], extraBody(req[r]))]
  /\ pc' = [pc EXCEPT ![r] = "done"]
  /\ UNCHANGED <<mode, cache, req, key, provider, resp, put, did, bodyUsed,
                 sent, late>>

(* The write is dropped when the key already holds an entry. *)
PutCompleted_KeepsFirst(r) ==
  /\ put[r].state = "pending"
  /\ cache' = [k \in DOMAIN cache \cup {put[r].key} |->
                 IF k \in DOMAIN cache THEN cache[k] ELSE put[r].response]
  /\ put' = [put EXCEPT ![r] = NoPut]
  /\ did' = [did EXCEPT ![r] = @ \cup {"stored"}]
  /\ UNCHANGED <<mode, req, pc, key, provider, resp, out, bodyUsed, sent, late>>

(* The cache.put given to waitUntil completes: the entry replaces what the
   key held. *)
PutCompleted(r) ==
  /\ put[r].state = "pending"
  /\ cache' = [k \in DOMAIN cache \cup {put[r].key} |->
                 IF k = put[r].key THEN put[r].response ELSE cache[k]]
  /\ put' = [put EXCEPT ![r] = NoPut]
  /\ did' = [did EXCEPT ![r] = @ \cup {"stored"}]
  /\ UNCHANGED <<mode, req, pc, key, provider, resp, out, bodyUsed, sent, late>>

(* A failed write stays scheduled and is tried again. *)
PutFailed_Retries(r) ==
  /\ put[r].state = "pending"
  /\ "putFailed" \notin did[r]
  /\ did' = [did EXCEPT ![r] = @ \cup {"putFailed"}]
  /\ UNCHANGED <<mode, cache, req, pc, key, provider, resp, put, out,
                 bodyUsed, sent, late>>

(* The cache.put given to waitUntil rejects: nothing awaits or catches the
   promise, the cache keeps what it held and the write is gone. *)
PutFailed(r) ==
  /\ put[r].state = "pending"
  /\ put' = [put EXCEPT ![r] = NoPut]
  /\ did' = [did EXCEPT ![r] = @ \cup {"putFailed"}]
  /\ UNCHANGED <<mode, cache, req, pc, key, provider, resp, out, bodyUsed,
                 sent, late>>

(* An entry outlives max-age=EDGE_CACHE_TTL and is dropped. *)
Expire(k) ==
  /\ k \in DOMAIN cache
  /\ cache' = [x \in DOMAIN cache \ {k} |-> cache[x]]
  /\ UNCHANGED <<mode, req, pc, key, provider, resp, put, out, did, bodyUsed,
                 sent, late>>

Next ==
  \/ \E r \in Events, q \in Requests : ReceiveOptions(r, q)
  \/ \E r \in Events, q \in Requests : ReceivePost(r, q)
  \/ \E r \in Events, q \in Requests : ReceiveGet(r, q)
  \/ \E r \in Events : PostBodyInvalid(r)
  \/ \E r \in Events, p \in ProviderIndex : PostBypass(r, p)
  \/ \E r \in Events : PostHash(r)
  \/ \E r \in Events : PostLookup(r)
  \/ \E r \in Events : CacheHit(r)
  \/ \E r \in Events, p \in ProviderIndex : CacheMiss(r, p)
  \/ \E r \in Events : CacheMissNoRequest(r)
  \/ \E r \in Events, o \in Outcomes("up") \cup Outcomes("down") :
       AttemptSucceeded(r, o)
  \/ \E r \in Events, o \in Outcomes("up") \cup Outcomes("down"),
        p \in ProviderIndex : AttemptFailed(r, o, p)
  \/ \E r \in Events, p \in ProviderIndex : LateSettle(r, p)
  \/ \E r \in Events : Respond(r)
  \/ \E r \in Events : PutCompleted(r)
  \/ \E r \in Events : PutFailed(r)
  \/ \E k \in DOMAIN cache : Expire(k)

Spec == Init /\ [][Next]_vars

(***************************************************************************)
(* Fairness: the runtime runs every handler that can go on, every network  *)
(* call or timer settles, every cache.put given to waitUntil settles,      *)
(* and Math.random picks each provider again and again.                    *)
(***************************************************************************)
Fairness ==
  \A r \in Events :
    /\ WF_vars(PostBodyInvalid(r))
    /\ WF_vars(PostHash(r))
    /\ WF_vars(PostLookup(r))
    /\ WF_vars(\E p \in ProviderIndex : PostBypass(r, p))
    /\ WF_vars(CacheHit(r))
    /\ WF_vars(\E p \in ProviderIndex : CacheMiss(r, p))
    /\ WF_vars(CacheMissNoRequest(r))
    /\ WF_vars(\E o \in Outcomes("up") : AttemptSucceeded(r, o))
    /\ \A p \in ProviderIndex :
         SF_vars(\E o \in Outcomes("down") : AttemptFailed(r, o, p))
    /\ WF_vars(Respond(r))
    /\ WF_vars(PutCompleted(r) \/ PutFailed(r))

FairSpec == Spec /\ Fairness

(***************************************************************************)
(* A smaller system for the properties of progress: the same handlers      *)
(* over one request of each kind, started with caches.default either empty *)
(* or holding the entry an earlier cacheable POST has stored.              *)
(***************************************************************************)
LiveBodies ==
  {[t |-> "object", id |-> 1, method |-> m, jsonrpc |-> "2.0",
    params |-> JArr(<<>>)] : m \in {"eth_call", "eth_blockNumber"}}

LiveRequests ==
  {q \in Requests :
     \/ q.method = "GET" /\ q.path = <<"/", "v", "1">>
     \/ q.method = "POST" /\ q.body \in LiveBodies \cup {InvalidJSON}
     \/ q.method = "OPTIONS" /\ q.headers = PreflightHeaders}

(* The entries an earlier event can have left in caches.default. *)
EarlierEntries ==
  {[k \in {cacheKeyPath(q)} |->
      edgeResponse(OriginResponse(q, CHOOSE o \in Outcomes("up") : TRUE))] :
     q \in {x \in LiveRequests : x.method = "POST" /\ x.body.t = "object"
                                   /\ ~bypassCache(x.body.method)}}

LiveInit ==
  /\ mode \in [ProviderIndex -> {"up", "down"}]
  /\ cache \in {[k \in {} |-> NoResponse]} \cup EarlierEntries
  /\ req = [r \in Events |-> NoRequest]
  /\ pc = [r \in Events |-> "idle"]
  /\ key = [r \in Events |-> NoKey]
  /\ provider = [r \in Events |-> 0]
  /\ resp = [r \in Events |-> NoResponse]
  /\ put = [r \in Events |-> NoPut]
  /\ out = [r \in Events |-> NoResponse]
  /\ did = [r \in Events |-> {}]
  /\ bodyUsed = [r \in Events |-> FALSE]
  /\ sent = [r \in Events |-> NoRequest]
  /\ late = [r \in Events |-> {}]

LiveNext ==
  \/ \E r \in Events, q \in LiveRequests : ReceiveOptions(r, q)
  \/ \E r \in Events, q \in LiveRequests : ReceivePost(r, q)
  \/ \E r \in Events, q \in LiveRequests : ReceiveGet(r, q)
  \/ \E r \in Events : PostBodyInvalid(r)
  \/ \E r \in Events, p \in ProviderIndex : PostBypass(r, p)
  \/ \E r \in Events : PostHash(r)
  \/ \E r \in Events : PostLookup(r)
  \/ \E r \in Events : CacheHit(r)
  \/ \E r \in Events, p \in ProviderIndex : CacheMiss(r, p)
  \/ \E r \in Events : CacheMissNoRequest(r)
  \/ \E r \in Events, o \in Outcomes("up") \cup Outcomes("down") :
       AttemptSucceeded(r, o)
  \/ \E r \in Events, o \in Outcomes("up") \cup Outcomes("down"),
        p \in ProviderIndex : AttemptFailed(r, o, p)
  \/ \E r \in Events, p \in ProviderIndex : LateSettle(r, p)
  \/ \E r \in Events : Respond(r)
  \/ \E r \in Events : PutCompleted(r)
  \/ \E r \in Events : PutFailed(r)
  \/ \E k \in DOMAIN cache : Expire(k)

LiveSpec == LiveInit /\ [][LiveNext]_vars /\ Fairness

(***************************************************************************)
(* Properties.                                                             *)
(***************************************************************************)
BypassMethods == {"eth_blockNumber", "eth_estimateGas"}

(* The attempt answered before the timer and with an ok status. *)
TimelyOk(a) ==
  /\ a.kind = "response"
  /\ a.status >= 200 /\ a.status <= 299
  /\ a.latency < PROVIDER_TIMEOUT

(* The request that caused a write is a GET or a POST outside the bypass set. *)
CacheableWriter(by) ==
  \/ by.method = "GET"
  \/ toUpperCase(by.method) = "POST" /\ by.rpc \notin BypassMethods

(* The request as the by field of a response names it. *)
Writer(q) ==
  [method |-> q.method, rpc |-> IF q.body.t = "object" THEN q.body.method ELSE ""]

IsRpcPost(r) == Handler(req[r]) = "handlePost" /\ req[r].body.t = "object"

Delivered(r) == out[r] # NoResponse

(* C1: every cache entry, and every cache write under way, holds the
   response of an attempt that answered in time with an ok status, asked by
   a GET or by a POST whose RPC method is not a bypass method. *)
C1_CacheOnlySuccessfulCacheable ==
  /\ \A k \in DOMAIN cache :
       TimelyOk(cache[k].attempt) /\ CacheableWriter(cache[k].by)
  /\ \A r \in Events :
       put[r].state = "pending" =>
         /\ TimelyOk(put[r].response.attempt)
         /\ CacheableWriter(put[r].response.by)
         /\ CacheableWriter(Writer(req[r]))

(* A cache entry exists after an event that had to retry. *)
C1_Witness ==
  \E r \in Events :
    /\ "retry" \in did[r] /\ "stored" \in did[r]
    /\ key[r] \in DOMAIN cache

(* C2: a POST of a bypass method never looks up, never stores and is
   answered from an origin attempt of its own; any other POST looks up under
   its derived key, and once it has missed and got a response a store under
   that key has been scheduled. *)
C2_BypassCorrect ==
  \A r \in Events :
    IsRpcPost(r) /\ pc[r] \notin {"parse", "hash"} =>
      IF req[r].body.method \in BypassMethods
        THEN /\ did[r] \cap {"lookup", "hit", "miss", "store", "stored"} = {}
             /\ key[r] = NoKey
             /\ put[r] = NoPut
             /\ "attempt" \in did[r]
             /\ resp[r] # NoResponse => resp[r].by.rpc = req[r].body.method
        ELSE /\ "lookup" \in did[r]
             /\ key[r] # NoKey
             /\ "miss" \in did[r] /\ pc[r] \in {"format", "done"} =>
                  /\ "store" \in did[r]
                  /\ \/ "stored" \in did[r]
                     \/ "putFailed" \in did[r]
                     \/ put[r].state = "pending" /\ put[r].key = key[r]

(* A bypassed POST has been answered and another POST has scheduled a store. *)
C2_Witness ==
  \E r1, r2 \in Events :
    /\ IsRpcPost(r1) /\ req[r1].body.method \in BypassMethods
    /\ pc[r1] = "done"
    /\ IsRpcPost(r2) /\ req[r2].body.method \notin BypassMethods
    /\ "store" \in did[r2]

(* C3: two cacheable POSTs to the same path whose bodies differ in method or
   jsonrpc have different cache keys, and a cache hit never hands a POST the
   response that was stored for another RPC method. *)
C3_KeyCoversMethod ==
  /\ \A r1, r2 \in Events :
       /\ IsRpcPost(r1) /\ IsRpcPost(r2)
       /\ key[r1] # NoKey /\ key[r2] # NoKey
       /\ req[r1].path = req[r2].path
       /\ \/ req[r1].body.method # req[r2].body.method
          \/ req[r1].body.jsonrpc # req[r2].body.jsonrpc
       => key[r1] # key[r2]
  /\ \A r \in Events :
       IsRpcPost(r) /\ "hit" \in did[r] =>
         resp[r].by.rpc = req[r].body.method

(* C4: a GET that missed the cache ends with a delivered response that came
   from an origin attempt, and a store under the request's own path was
   scheduled for it. *)
C4_GetMissServed ==
  \A r \in Events :
    Handler(req[r]) = "handleGet" /\ "miss" \in did[r] =>
      /\ pc[r] # "failed"
      /\ "attempt" \in did[r]
      /\ pc[r] = "done" =>
           /\ Delivered(r)
           /\ "store" \in did[r]

(* C5: an attempt under way either fails, and then the loop goes on with a
   chosen provider while nothing is returned, delivered or stored, or it
   returns a response that answered in time with an ok status, which is also
   the only response a store is scheduled for. *)
C5_OnlyTimelyOkReturned ==
  [][\A r \in Events :
       pc[r] = "fetch" =>
         \/ /\ pc'[r] = "fetch"
            /\ provider'[r] \in ProviderIndex
            /\ resp'[r] = NoResponse
            /\ out'[r] = NoResponse
            /\ put'[r] = NoPut
         \/ /\ pc'[r] = "format"
            /\ TimelyOk(resp'[r].attempt)
            /\ put'[r].state = "pending" => TimelyOk(put'[r].response.attempt)]_vars

(* A response was returned after an earlier attempt of the event failed. *)
C5_Witness ==
  \E r \in Events :
    /\ "retry" \in did[r]
    /\ pc[r] = "format"
    /\ TimelyOk(resp[r].attempt)

(* With a provider that answers, every request that has started an attempt
   eventually has its response delivered to the client. *)
PostFailoverLive ==
  \A r \in Events :
    (/\ "attempt" \in did[r]
     /\ \E p \in ProviderIndex : mode[p] = "up") ~> Delivered(r)

(* C6: with a provider that answers, every request that has entered the
   failover loop eventually has its response delivered to the client. *)
C6_FailoverLive ==
  \A r \in Events :
    (/\ "tryProvider" \in did[r]
     /\ \E p \in ProviderIndex : mode[p] = "up") ~> Delivered(r)

(* C7: with every provider failing, a request that has entered the failover
   loop is never in a terminal state. *)
C7_NoTerminalState ==
  \A r \in Events :
    /\ "tryProvider" \in did[r]
    /\ \A p \in ProviderIndex : mode[p] = "down"
    => pc[r] \notin {"done", "failed"}

(* C8: the body delivered for a POST carries the id of that POST's body. *)
C8_IdPreserved ==
  \A r \in Events :
    IsRpcPost(r) /\ Delivered(r) => out[r].body.id = req[r].body.id

(* A POST was answered from an entry that holds another request's id. *)
C8_Witness ==
  \E r \in Events :
    /\ IsRpcPost(r) /\ Delivered(r)
    /\ "hit" \in did[r]
    /\ resp[r].body.id # req[r].body.id

(* The SHA-256 digests of the empty text, of [] and of ["0x1"]. *)
KnownDigest(text) ==
  IF text = Undefined
    THEN <<"e", "3", "b", "0", "c", "4", "4", "2", "9", "8", "f", "c", "1", "c", "1", "4",
         "9", "a", "f", "b", "f", "4", "c", "8", "9", "9", "6", "f", "b", "9", "2", "4",
         "2", "7", "a", "e", "4", "1", "e", "4", "6", "4", "9", "b", "9", "3", "4", "c",
         "a", "4", "9", "5", "9", "9", "1", "b", "7", "8", "5", "2", "b", "8", "5", "5">>
  ELSE IF text = JStr(<<"[", "]">>)
    THEN <<"4", "f", "5", "3", "c", "d", "a", "1", "8", "c", "2", "b", "a", "a", "0", "c",
         "0", "3", "5", "4", "b", "b", "5", "f", "9", "a", "3", "e", "c", "b", "e", "5",
         "e", "d", "1", "2", "a", "b", "4", "d", "8", "e", "1", "1", "b", "a", "8", "7",
         "3", "c", "2", "f", "1", "1", "1", "6", "1", "2", "0", "2", "b", "9", "4", "5">>
  ELSE <<"5", "0", "0", "1", "b", "c", "b", "a", "2", "7", "6", "7", "f", "c", "a", "4",
         "e", "e", "2", "6", "1", "9", "e", "a", "2", "d", "7", "c", "1", "4", "7", "c",
         "f", "a", "1", "e", "6", "0", "c", "e", "9", "1", "6", "3", "9", "3", "b", "4",
         "a", "0", "f", "1", "d", "a", "8", "9", "a", "3", "c", "3", "1", "2", "6", "3">>

(* C9: the key of a POST is "/posts", the path and the hexadecimal SHA-256
   of the serialized params; POSTs to one path with equal serialized params
   have equal keys whatever their ids, POSTs with different serialized
   params have different keys. *)
C9_KeyDeterministic ==
  /\ \A r \in Events :
       IsRpcPost(r) /\ key[r] # NoKey =>
         key[r] = <<"/", "p", "o", "s", "t", "s">> \o req[r].path
                    \o KnownDigest(JSONstringify(req[r].body.params))
  /\ \A r1, r2 \in Events :
       /\ IsRpcPost(r1) /\ IsRpcPost(r2)
       /\ key[r1] # NoKey /\ key[r2] # NoKey
       => IF JSONstringify(req[r1].body.params)
               = JSONstringify(req[r2].body.params)
            THEN req[r1].path = req[r2].path => key[r1] = key[r2]
            ELSE key[r1] # key[r2]

(* Two POSTs with different ids and the same params hold the same key. *)
C9_Witness ==
  \E r1, r2 \in Events :
    /\ IsRpcPost(r1) /\ IsRpcPost(r2)
    /\ key[r1] # NoKey /\ key[r1] = key[r2]
    /\ req[r1].body.id # req[r2].body.id
    /\ req[r1].body.params = req[r2].body.params

EdgeCacheControl == <<"public, max-age=", EDGE_CACHE_TTL>>

(* C10: a response the GET or POST handler delivers has Cache-Control
   max-age=BROWSER_CACHE_TTL, not the edge value, and the three CORS
   headers. *)
C10_ClientHeaders ==
  \A r \in Events :
    Handler(req[r]) \in {"handleGet", "handlePost"} /\ Delivered(r) =>
      /\ out[r].headers["Cache-Control"] = <<"max-age=", BROWSER_CACHE_TTL>>
      /\ out[r].headers["Cache-Control"] # EdgeCacheControl
      /\ out[r].headers["Access-Control-Allow-Method"] = <<"*">>
      /\ out[r].headers["Access-Control-Allow-Origin"] = <<"*">>
      /\ out[r].headers["Access-Control-Allow-Headers"] = <<"*">>

(* A response was delivered from a cache entry stamped with the edge value. *)
C10_Witness ==
  \E r \in Events :
    /\ Delivered(r)
    /\ "hit" \in did[r]
    /\ resp[r].headers["Cache-Control"] = EdgeCacheControl

(* C11: within a cacheable request the cache lookup comes before the first
   origin attempt, a store is scheduled only in the step that returns a
   timely ok response of an attempt, and once the store is scheduled the
   request makes no further attempt or lookup. *)
C11_LookupFetchStoreOrder ==
  [][\A r \in Events :
       /\ "attempt" \notin did[r] /\ "attempt" \in did'[r] /\ key'[r] # NoKey
            => "lookup" \in did[r]
       /\ "attempt" \in did[r] => pc'[r] # "lookup"
       /\ "store" \notin did[r] /\ "store" \in did'[r]
            => /\ "attempt" \in did[r]
               /\ pc[r] = "fetch" /\ pc'[r] = "format"
               /\ TimelyOk(resp'[r].attempt)
       /\ "store" \in did[r] => pc'[r] \notin {"lookup", "fetch"}]_vars

(* A cacheable request looked up, missed, retried and scheduled its store. *)
C11_Witness ==
  \E r \in Events :
    {"lookup", "miss", "attempt", "retry", "store"} \subseteq did[r]

(* C13: a completed store makes its response the whole entry of its key and
   leaves the other entries alone, whatever the key held; and a request that
   missed holds the response of its own origin fetch. *)
C13_LastWriterWins ==
  [][\A r \in Events :
       /\ "stored" \notin did[r] /\ "stored" \in did'[r]
            => /\ put[r].key \in DOMAIN cache'
               /\ cache'[put[r].key] = put[r].response
               /\ \A k \in DOMAIN cache \ {put[r].key} :
                    k \in DOMAIN cache' /\ cache'[k] = cache[k]
       /\ "miss" \in did'[r] /\ resp'[r] # NoResponse
            => /\ resp'[r].body = OriginBody(req'[r], 200)
               /\ resp'[r].by = Writer(req'[r])]_vars

(* Two requests missed on one key, each fetched and stored its own response,
   and the entry is the response of one of them. *)
C13_Witness ==
  \E r1, r2 \in Events :
    /\ r1 # r2 /\ key[r1] = key[r2] /\ key[r1] \in DOMAIN cache
    /\ {"miss", "stored"} \subseteq did[r1]
    /\ {"miss", "stored"} \subseteq did[r2]
    /\ resp[r1] # resp[r2]
    /\ cache[key[r1]] = resp[r2]

(* C17: a rejected cache write changes neither the cache nor anything of the
   request (its response, its delivery, its position); after the failure the
   write is gone and never completes; and a request that scheduled a store is
   delivered the formatted edge response of its timely ok origin fetch
   whatever became of the write. *)
C17_StoreFailureHarmless ==
  [][\A r \in Events :
       /\ "putFailed" \notin did[r] /\ "putFailed" \in did'[r]
            => /\ cache' = cache
               /\ out'[r] = out[r] /\ resp'[r] = resp[r] /\ pc'[r] = pc[r]
       /\ "putFailed" \in did'[r]
            => put'[r] = NoPut /\ "stored" \notin did'[r]
       /\ "store" \in did'[r] /\ out'[r] # NoResponse
            => /\ TimelyOk(resp'[r].attempt)
               /\ resp'[r] =
                    edgeResponse(OriginResponse(req'[r], resp'[r].attempt))
               /\ out'[r] = formatResponse(resp'[r], extraBody(req'[r]))]_vars

(* The write of a request failed, the cache holds nothing under its key and
   the client has the response. *)
C17_Witness ==
  \E r \in Events :
    /\ "putFailed" \in did[r]
    /\ key[r] \notin DOMAIN cache
    /\ Delivered(r)

(* C12: a handler that holds its response can deliver it at once, whether or
   not its cache write is still pending, and every scheduled cache write
   eventually settles (completes or rejects), also after the response has
   been delivered. *)
C12_StoreDetachedAndCompleted ==
  /\ [](\A r \in Events : pc[r] = "format" => ENABLED Respond(r))
  /\ \A r \in Events :
       (put[r].state = "pending") ~> (put[r].state # "pending")

(* The response of a miss is delivered while its store is pending. *)
C12_Witness ==
  \E r \in Events :
    /\ pc[r] = "done" /\ Delivered(r)
    /\ "miss" \in did[r]
    /\ put[r].state = "pending"

(* C14: whatever the other events do, also when one of them retries without
   end against failing providers: an OPTIONS request is answered in the step
   that receives it, a request that holds a response (a cache hit, a
   returned fetch) is eventually delivered it, and a request whose attempt
   is at a working provider is eventually delivered a response. *)
C14_OthersNotBlocked ==
  /\ [][\A s \in Events :
          pc[s] = "idle" /\ pc'[s] # "idle"
            /\ Handler(req'[s]) = "handleOptions"
          => out'[s] # NoResponse]_vars
  /\ \A s \in Events :
       /\ (pc[s] = "format") ~> Delivered(s)
       /\ (pc[s] = "fetch" /\ mode[provider[s]] = "up") ~> Delivered(s)

(* One event is retrying with every provider failing while another one has
   been answered from the cache. *)
C14_Witness ==
  \E r, s \in Events :
    /\ r # s
    /\ \A p \in ProviderIndex : mode[p] = "down"
    /\ pc[r] = "fetch" /\ "retry" \in did[r]
    /\ "hit" \in did[s] /\ Delivered(s)

(* The spellings of OPTIONS and of POST among the methods of Requests. *)
OptionsSpellings == {"OPTIONS", "options"}

PostSpellings == {"POST", "post"}

(* The handler of an event has ended, with or without a response. *)
Ended(r) == pc[r] \in {"done", "failed"}

(* C15 as stated: every inbound request is dispatched by its method without
   regard to case, and a request whose handler has ended was given a
   response. *)
C15_ExactlyOneResponse ==
  \A r \in Events :
    /\ req[r] # NoRequest /\ req[r].method \in OptionsSpellings
         => pc[r] = "done"
    /\ Ended(r) => Delivered(r)

(* C15, amended: the listener hands each inbound request to one handler, by
   its method without regard to case (OPTIONS: answered by handleOptions in
   that step; POST: handlePost, at its body; any other: handleGet, at its
   lookup), the request of an event never changes, and a response once
   delivered is never replaced: at most one response per request, and
   exactly one for OPTIONS. *)
C15_OneHandlerAtMostOneResponse ==
  [][\A r \in Events :
       /\ pc[r] = "idle" /\ pc'[r] # "idle"
            => /\ req'[r] \in Requests
               /\ IF req'[r].method \in OptionsSpellings
                    THEN pc'[r] = "done" /\ out'[r] = handleOptions(req'[r])
                    ELSE IF req'[r].method \in PostSpellings
                    THEN pc'[r] = "parse" /\ out'[r] = NoResponse
                    ELSE /\ pc'[r] = "lookup" /\ key'[r] = req'[r].path
                         /\ out'[r] = NoResponse
       /\ pc[r] # "idle" => req'[r] = req[r]
       /\ out[r] # NoResponse => out'[r] = out[r] /\ pc'[r] = "done"]_vars

(* A POST and an OPTIONS spelled in lower case were handled as such, and
   a HEAD went to the lookup of handleGet. *)
C15_Witness ==
  /\ \E r \in Events :
       req[r].method = "post" /\ "store" \in did[r] /\ Delivered(r)
  /\ \E r \in Events :
       req[r].method \in {"options", "HEAD"} /\ pc[r] \in {"done", "failed"}

(* C16 as stated: a POST whose body is no valid JSON or lacks method,
   jsonrpc and params gets no response and causes no lookup, no attempt and
   no store. *)
C16_MalformedPostFails ==
  \A r \in Events :
    /\ req[r].method \in PostSpellings
    /\ req[r].body \in {InvalidJSON, NullBody, BareBody}
    => /\ out[r] = NoResponse
       /\ did[r] = {} /\ key[r] = NoKey /\ put[r] = NoPut

(* C16, amended: a POST whose body json() cannot parse, or parses to null,
   ends in failure with no response, no lookup, no attempt and no store,
   and never changes the cache. A body that is a JSON object lacking the
   fields is no failure: it is looked up under the hash of its missing
   params. *)
C16_UnparsablePostFails ==
  [][\A r \in Events :
       /\ req'[r].method \in PostSpellings
            /\ req'[r].body \in {InvalidJSON, NullBody}
          => /\ out'[r] = NoResponse /\ resp'[r] = NoResponse
             /\ did'[r] = {} /\ key'[r] = NoKey /\ put'[r] = NoPut
             /\ pc'[r] \in {"parse", "failed"}
             /\ (pc[r] = "parse" /\ pc'[r] # "parse"
                   => pc'[r] = "failed" /\ cache' = cache)
       /\ req'[r].method \in PostSpellings /\ req'[r].body = BareBody
          => /\ pc[r] = "parse" /\ pc'[r] # "parse" => pc'[r] = "hash"
             /\ pc[r] = "hash" /\ pc'[r] # "hash"
                  => pc'[r] = "lookup" /\ key'[r] = cacheKeyPath(req'[r])]_vars

(* An unparsable POST has failed, and a POST without the fields was answered
   and its response stored. *)
C16_Witness ==
  /\ \E r \in Events :
       req[r].body \in {InvalidJSON, NullBody} /\ pc[r] = "failed"
  /\ \E r \in Events :
       req[r].body = BareBody /\ "stored" \in did[r] /\ Delivered(r)

(* The three headers of a CORS preflight. *)
PreflightNames ==
  {"Origin", "Access-Control-Request-Method", "Access-Control-Request-Headers"}

(* C18: the step that receives an OPTIONS request delivers a bodyless
   response: with all three preflight headers its headers are Allow-Origin *,
   Allow-Methods GET,HEAD,POST,OPTIONS, Max-Age 86400 and Allow-Headers equal
   to the requested headers value; with any of them missing its only header
   is Allow: GET, HEAD, POST, OPTIONS. The step leaves the cache alone, and
   the request never looks up, fetches or stores. *)
C18_OptionsPreflight ==
  [][\A r \in Events :
       /\ req'[r] # NoRequest /\ req'[r].method \in OptionsSpellings
       => /\ out'[r] # NoResponse
          /\ out'[r].body = NoBody
          /\ IF PreflightNames \subseteq DOMAIN req'[r].headers
               THEN /\ DOMAIN out'[r].headers =
                         {"Access-Control-Allow-Origin",
                          "Access-Control-Allow-Methods",
                          "Access-Control-Max-Age",
                          "Access-Control-Allow-Headers"}
                    /\ out'[r].headers["Access-Control-Allow-Origin"] = <<"*">>
                    /\ out'[r].headers["Access-Control-Allow-Methods"]
                         = <<"GET,HEAD,POST,OPTIONS">>
                    /\ out'[r].headers["Access-Control-Max-Age"] = <<"86400">>
                    /\ out'[r].headers["Access-Control-Allow-Headers"]
                         = req'[r].headers["Access-Control-Request-Headers"]
               ELSE /\ DOMAIN out'[r].headers = {"Allow"}
                    /\ out'[r].headers["Allow"] = <<"GET, HEAD, POST, OPTIONS">>
          /\ did'[r] = {} /\ key'[r] = NoKey /\ provider'[r] = 0
          /\ resp'[r] = NoResponse /\ put'[r] = NoPut
          /\ (req[r] = NoRequest => cache' = cache)]_vars

(* A preflight with the three headers and an OPTIONS request with one of
   them missing have both been answered. *)
C18_Witness ==
  \E r1, r2 \in Events :
    /\ req[r1].method \in OptionsSpellings /\ req[r2].method \in OptionsSpellings
    /\ req[r1].headers = PreflightHeaders /\ Delivered(r1)
    /\ req[r2].headers \in {NoRequestHeadersHeaders, NoOriginHeaders}
    /\ Delivered(r2)

(* C19: the body of the original request of an event is never read, and
   the request given to fetch for every attempt, the first and every retry,
   is a copy of the original with its complete body. *)
C19_FreshCloneEveryAttempt ==
  \A r \in Events :
    /\ ~bodyUsed[r]
    /\ "attempt" \in did[r]
         => /\ sent[r] = req[r]
            /\ sent[r].body = req[r].body /\ sent[r].body # DrainedBody

(* A POST with a JSON-RPC body is at an attempt that follows a failed one,
   and the attempt carries that body. *)
C19_Witness ==
  \E r \in Events :
    /\ pc[r] = "fetch" /\ "retry" \in did[r]
    /\ req[r].body \in RpcBodies
    /\ sent[r].body = req[r].body

(* C20: the settling of a call that had timed out changes nothing but the
   set of calls in flight, and the response tryProvider returns is the one
   of the attempt under way at the provider picked last, answered in time:
   never the answer of a call that had timed out. *)
C20_LateResultIgnored ==
  [][\A r \in Events :
       /\ late'[r] # late[r] /\ late'[r] \subseteq late[r]
            => /\ resp' = resp /\ out' = out /\ pc' = pc
               /\ cache' = cache /\ put' = put /\ provider' = provider
       /\ pc[r] = "fetch" /\ pc'[r] = "format"
            => /\ resp'[r].attempt \in Outcomes(mode[provider[r]])
               /\ ~abandoned(resp'[r].attempt, PROVIDER_TIMEOUT)
               /\ resp'[r].attempt.latency < PROVIDER_TIMEOUT
       /\ resp'[r] # NoResponse
            => resp'[r].attempt.latency < PROVIDER_TIMEOUT
       /\ out'[r] # NoResponse /\ Handler(req'[r]) # "handleOptions"
            => out'[r].attempt.latency < PROVIDER_TIMEOUT]_vars

(* A request was answered by a later attempt at a working provider while
   the call of its attempt that timed out is still in flight. *)
C20_Witness ==
  \E r \in Events :
    /\ Delivered(r) /\ "retry" \in did[r]
    /\ late[r] # {}
    /\ mode[provider[r]] = "up"
    /\ TimelyOk(out[r].attempt)

====
